---- MODULE Spec2Model ----
(***************************************************************************)
(* A model of the shared-storage crate: the SimpleResourceProvider         *)
(* (src/src/util.rs), the Directory tree (src/src/entry.rs) and the        *)
(* streaming import of SharedStorage (src/src/storage.rs).                 *)
(***************************************************************************)
EXTENDS Integers, Sequences, FiniteSets, TLC

(***************************************************************************)
(* Bounds of the model.                                                    *)
(***************************************************************************)
\* usize is modelled as the integers modulo UsizeModulus (2^64 in the crate).
UsizeModulus == 8
\* SimpleResourceProvider::new(claims, space): claims in 0..MaxClaims
MaxClaims == 3
\* SimpleResourceProvider::new(claims, space): space in 0..MaxSpace
MaxSpace == 2
\* handles a free client of the provider takes in SpecSRP
MaxHandles == 3
\* I/O calls that fail over a run
MaxFaults == 1
\* events the producer yields over a run
MaxEvents == 4
\* entries of a tree before a call in SpecTree
MaxEntries == 3
\* entries a scan of a directory finds
MaxScanned == 3

VARIABLES
    overflow_checks, \* build profile: TRUE = arithmetic overflow panics (debug),
                     \*                FALSE = it wraps (release)
    srp,             \* SRPInner, shared by the provider and every handle
    allocs,          \* every SimpleResourceAllocation granted so far
    last_call,       \* the most recent call on the provider and what it returned
    fs_data,         \* files under BASE/data: blob path -> content
    fs_indices,      \* files under BASE/indices: file name -> content
    indices,         \* SharedStorage.indices: name -> InMemoryIndex
    pc,              \* where the import call is
    name,            \* import's name argument
    root,            \* import's tree under construction
    inserters,       \* import's FuturesUnordered: the tasks not yet reaped
    event,           \* the event import_ is processing
    alloc,           \* the handle import_ holds between claim and spawn
    result,          \* what the import call returned
    tasks,           \* every spawned import_file task
    drawn,           \* events drawn from the producer so far
    faults,          \* I/O errors the filesystem has returned so far
    hist             \* what the import call has seen (for the claims)

srpVars == <<overflow_checks, srp, allocs, last_call>>

fsVars == <<fs_data, fs_indices>>

engVars == <<indices, pc, name, root, inserters, event, alloc, result, drawn, hist>>

vars == <<overflow_checks, srp, allocs, last_call, fs_data, fs_indices, indices, pc,
          name, root, inserters, event, alloc, result, tasks, drawn, faults, hist>>

(***************************************************************************)
(* usize arithmetic                                                        *)
(***************************************************************************)
Usize == 0 .. (UsizeModulus - 1)

wrapping_add(a, b) == (a + b) % UsizeModulus

wrapping_sub(a, b) == (a + UsizeModulus - b) % UsizeModulus

add_overflows(a, b) == a + b >= UsizeModulus

sub_overflows(a, b) == a < b

saturating_sub(a, b) == IF a < b THEN 0 ELSE a - b

(***************************************************************************)
(* SimpleResourceProvider                                                  *)
(***************************************************************************)
\* Option<usize> is a set with at most one element
NoMaxSpace == {}

SRPInner(c, s, m) ==
    [claims |-> c, claims_in_use |-> 0, space |-> s, space_in_use |-> 0, max_space |-> m]

new(c, s) == SRPInner(c, s, NoMaxSpace)

new_with_max_space(c, s, m) == SRPInner(c, s, {m})

SimpleResourceAllocation(size) == [space |-> size, released |-> FALSE]

\* ResourceProvider::claim: the result and the counters it leaves
claim(inner, size) ==
    IF \E max \in inner.max_space : size > max
    THEN [result |-> "Impossible", inner |-> inner]
    ELSE IF inner.claims_in_use = inner.claims
    THEN [result |-> "Busy", inner |-> inner]
    ELSE IF inner.claims_in_use > 0 /\ overflow_checks
            /\ add_overflows(inner.space_in_use, size)
    THEN [result |-> "Panic", inner |-> inner]
    ELSE IF inner.claims_in_use > 0
            /\ wrapping_add(inner.space_in_use, size) > inner.space
    THEN [result |-> "Busy", inner |-> inner]
    ELSE IF overflow_checks /\ add_overflows(inner.space_in_use, size)
    THEN [result |-> "Panic", inner |-> inner]
    ELSE [result |-> "Ok",
          inner |-> [inner EXCEPT
                        !.space_in_use = wrapping_add(inner.space_in_use, size),
                        !.claims_in_use = wrapping_add(inner.claims_in_use, 1)]]

\* ResourceAllocation::release: the counters and the handle it leaves
release(inner, allocation) ==
    IF allocation.released
    THEN [inner |-> inner, alloc |-> allocation, panic |-> FALSE]
    ELSE IF overflow_checks /\ sub_overflows(inner.claims_in_use, 1)
    THEN [inner |-> inner, alloc |-> allocation, panic |-> TRUE]
    ELSE IF overflow_checks /\ sub_overflows(inner.space_in_use, allocation.space)
    THEN [inner |-> [inner EXCEPT !.claims_in_use = inner.claims_in_use - 1],
          alloc |-> allocation, panic |-> TRUE]
    ELSE [inner |-> [inner EXCEPT
                        !.claims_in_use = wrapping_sub(inner.claims_in_use, 1),
                        !.space_in_use = wrapping_sub(inner.space_in_use, allocation.space)],
          alloc |-> [allocation EXCEPT !.released = TRUE],
          panic |-> FALSE]

NoCall == [op |-> "none"]

claims_in_use == srp.claims_in_use

space_in_use == srp.space_in_use

spare_claims == srp.claims - srp.claims_in_use

spare_space == saturating_sub(srp.space, srp.space_in_use)

(***************************************************************************)
(* Paths (std::path).  A path is the sequence of its components; "/" is    *)
(* the root component, "C:" a prefix, ".." the parent and "." the current  *)
(* directory; anything else is a normal component.                         *)
(***************************************************************************)
Last(seq) == seq[Len(seq)]

Front(seq) == SubSeq(seq, 1, Len(seq) - 1)

\* Path::file_name: the final component when it is a normal one
file_name(path) ==
    IF path = <<>> \/ Last(path) \in {"/", "C:", "..", "."} THEN {} ELSE {Last(path)}

\* Path::parent: the path without its final component
parent(path) ==
    IF path = <<>> \/ Last(path) \in {"/", "C:"} THEN {} ELSE {Front(path)}

\* PathBuf::set_extension("tmp") on a file name: the text after the last dot of
\* the name is replaced, a name without a dot gets ".tmp" appended
set_extension_tmp(file) ==
    CASE file = "a" -> "a.tmp"
      [] file = "a.tmp" -> "a.tmp"
      [] file = "a.b" -> "a.tmp"
      [] file = "b" -> "b.tmp"
      [] file = "b.tmp" -> "b.tmp"

(***************************************************************************)
(* StorageIdentifier                                                       *)
(***************************************************************************)
\* the payloads a FileData event may carry
Contents == {"x", "y"}

\* Bytes::len
len(bytes) == IF bytes = "x" THEN 1 ELSE 2

\* SHA-256 in hex, taken to be injective on the payloads
Sha256(bytes) == <<"sha256", bytes>>

StorageIdentifier(bytes, executable) ==
    [hash |-> Sha256(bytes), size |-> len(bytes), executable |-> executable]

\* StorageIdentifier::filename: the blob path BASE/data/XX/YY/REST-SIZE[x]
filename(identity) == <<"data", identity.hash, identity.size, identity.executable>>

\* the blob path after set_extension("tmp"): REST-SIZE[x].tmp
temp_file(entry_path) == Append(entry_path, "tmp")

(***************************************************************************)
(* Directory (entry.rs).  A Directory is the function from the paths of    *)
(* the entries below it to what they are; `here` is the path of the        *)
(* sub-directory a traversal has reached.                                  *)
(***************************************************************************)
Directory_default == <<>>

DirectoryEntry_Directory == [kind |-> "Directory", id |-> <<>>]

DirectoryEntry_File(identity) == [kind |-> "File", id |-> identity]

Traversal(e, dir, here) == [err |-> e, dir |-> dir, here |-> here]

descend(dir, here, component) ==
    LET p == Append(here, component) IN
    IF p \notin DOMAIN dir THEN Traversal("EntryNotFound", dir, here)
    ELSE IF dir[p].kind = "Directory" THEN Traversal("none", dir, p)
    ELSE Traversal("EntryNotDirectory", dir, here)

\* descend_mut that creates a missing component whatever `create` says
descend_mut_always_creates(dir, here, component, create) ==
    LET p == Append(here, component)
        made == IF p \notin DOMAIN dir
                THEN (p :> DirectoryEntry_Directory) @@ dir
                ELSE dir
    IN  IF made[p].kind = "Directory" THEN Traversal("none", made, p)
        ELSE Traversal("EntryNotDirectory", made, here)

descend_mut(dir, here, component, create) ==
    LET p == Append(here, component)
        made == IF p \notin DOMAIN dir /\ create
                THEN (p :> DirectoryEntry_Directory) @@ dir
                ELSE dir
    IN  IF p \notin DOMAIN dir /\ ~create THEN Traversal("EntryNotFound", dir, here)
        ELSE IF made[p].kind = "Directory" THEN Traversal("none", made, p)
        ELSE Traversal("EntryNotDirectory", made, here)

RECURSIVE traverse_from(_, _, _)
traverse_from(dir, here, path) ==
    IF path = <<>> THEN Traversal("none", dir, here)
    ELSE LET c == Head(path) IN
         CASE c = "." -> traverse_from(dir, here, Tail(path))
           [] c = "C:" -> Traversal("UnexpectedPrefix", dir, here)
           [] c = ".." -> Traversal("UnexpectedParent", dir, here)
           [] c = "/" -> Traversal("UnexpectedRootDir", dir, here)
           [] OTHER -> LET r == descend(dir, here, c) IN
                       IF r.err # "none" THEN r
                       ELSE traverse_from(dir, r.here, Tail(path))

traverse(dir, path) == traverse_from(dir, <<>>, path)

RECURSIVE traverse_mut_from(_, _, _, _)
traverse_mut_from(dir, here, path, create) ==
    IF path = <<>> THEN Traversal("none", dir, here)
    ELSE LET c == Head(path) IN
         CASE c = "." -> traverse_mut_from(dir, here, Tail(path), create)
           [] c = "C:" -> Traversal("UnexpectedPrefix", dir, here)
           [] c = ".." -> Traversal("UnexpectedParent", dir, here)
           [] c = "/" -> Traversal("UnexpectedRootDir", dir, here)
           [] OTHER -> LET r == descend_mut(dir, here, c, create) IN
                       IF r.err # "none" THEN r
                       ELSE traverse_mut_from(r.dir, r.here, Tail(path), create)

traverse_mut(dir, path, create) == traverse_mut_from(dir, <<>>, path, create)

\* insert_file that replaces a file of another identifier
insert_file_replaces(dir, here, fname, identity) ==
    LET p == Append(here, fname) IN
    IF p \in DOMAIN dir /\ dir[p].kind = "Directory"
    THEN [err |-> "FileEntryExistsAsDirectory", dir |-> dir]
    ELSE [err |-> "none",
          dir |-> [q \in DOMAIN dir \cup {p} |->
                      IF q = p THEN DirectoryEntry_File(identity) ELSE dir[q]]]

insert_file(dir, here, fname, identity) ==
    LET p == Append(here, fname) IN
    IF p \notin DOMAIN dir
    THEN [err |-> "none", dir |-> (p :> DirectoryEntry_File(identity)) @@ dir]
    ELSE IF dir[p].kind = "Directory"
    THEN [err |-> "FileEntryExistsAsDirectory", dir |-> dir]
    ELSE IF dir[p].id # identity
    THEN [err |-> "FileEntryExistsAsFile", dir |-> dir]
    ELSE [err |-> "none", dir |-> dir]

\* mkdir that puts an empty directory in place of whatever had the name
mkdir_resets(dir, here, fname) ==
    LET p == Append(here, fname)
        kept == {q \in DOMAIN dir : ~(Len(q) >= Len(p) /\ SubSeq(q, 1, Len(p)) = p)}
    IN  [err |-> "none",
         dir |-> [q \in kept \cup {p} |->
                     IF q = p THEN DirectoryEntry_Directory ELSE dir[q]]]

mkdir(dir, here, fname) ==
    LET p == Append(here, fname) IN
    IF p \notin DOMAIN dir
    THEN [err |-> "none", dir |-> (p :> DirectoryEntry_Directory) @@ dir]
    ELSE IF dir[p].kind = "File"
    THEN [err |-> "DirectoryEntryExistsAsFile", dir |-> dir]
    ELSE [err |-> "none", dir |-> dir]

is_empty(dir) == DOMAIN dir = {}

(***************************************************************************)
(* The filesystem below BASE.  A file is absent, or holds what has been    *)
(* written to it: nothing yet, a part of the content, or all of it.        *)
(***************************************************************************)
Absent == [state |-> "absent", body |-> <<>>]

Empty == [state |-> "empty", body |-> <<>>]

Partial == [state |-> "partial", body |-> <<>>]

Whole(body) == [state |-> "whole", body |-> body]

\* fs::metadata(path) is Ok
exists(files, path) == path \in DOMAIN files /\ files[path].state # "absent"

\* the files after `path` is created or overwritten with `content`
put(files, path, content) == [q \in DOMAIN files \cup {path} |->
                                 IF q = path THEN content ELSE files[q]]

\* fs::rename(from, to): `to` is replaced, `from` is gone
rename(files, from, to) ==
    IF from = to THEN files
    ELSE [q \in DOMAIN files \cup {to} |->
             IF q = to THEN files[from] ELSE IF q = from THEN Absent ELSE files[q]]

\* fs::remove_file(path)
remove_file(files, path) == put(files, path, Absent)

MayFail == faults < MaxFaults

(***************************************************************************)
(* SharedStorage::import_file: the spawned task of one file.  A task owns  *)
(* its allocation; tasks maps the identifiers of the tasks that exist to   *)
(* their state.  A task whose JoinHandle was dropped is gone when it ends. *)
(***************************************************************************)
Pending == [kind |-> "Pending"]

\* Ok((parent_path, file_name, identity))
Completion(t) ==
    [kind |-> "Ok", parent_path |-> t.parent_path, file_name |-> t.file_name,
     identity |-> StorageIdentifier(t.bytes, t.executable)]

Err(e) == [kind |-> "Err", err |-> e]

\* tokio::task::spawn(Self::import_file(alloc, base, parent_path, file_name,
\* executable, bytes))
import_file(allocation, parent_path, fname, executable, bytes) ==
    [pc |-> "stat", allocation |-> allocation, parent_path |-> parent_path,
     file_name |-> fname, executable |-> executable, bytes |-> bytes,
     contents |-> "held", created |-> FALSE, io_error |-> "none", result |-> Pending]

entry_path(t) == filename(StorageIdentifier(t.bytes, t.executable))

Running == {i \in DOMAIN tasks : tasks[i].pc # "done"}

\* the tasks without task i
without(i) == [j \in DOMAIN tasks \ {i} |-> tasks[j]]

\* the task goes on to its next await
TaskStep(i, next) ==
    /\ tasks' = [tasks EXCEPT ![i].pc = next]
    /\ UNCHANGED <<srpVars, engVars>>

\* task i ends as t: its output waits in its JoinHandle if inserters still
\* holds that, and is dropped otherwise
finish(i, t) == IF i \in inserters THEN [tasks EXCEPT ![i] = t] ELSE without(i)

\* `?` on an I/O error of `step`: import_file returns Err(IOErrorAddingToStorage)
\* and its locals are dropped; drop_claim_impl (util.rs:152) panics on the
\* unreleased allocation, so the JoinHandle yields a JoinError, which
\* storage.rs:336 maps to Error::JoinError
TaskThrow(i, step) ==
    /\ tasks' = finish(i, [tasks[i] EXCEPT
                              !.pc = "done", !.contents = "dropped", !.io_error = step,
                              !.result = IF tasks[i].allocation.released
                                         THEN Err("IOErrorAddingToStorage")
                                         ELSE Err("JoinError")])
    /\ UNCHANGED <<srpVars, engVars>>

\* the filesystem fails the call `step` of task i
TaskFault(i, step) ==
    /\ MayFail
    /\ faults' = faults + 1
    /\ TaskThrow(i, step)

\* lines 365-381: the identifier is computed and fs::metadata(&entry_path) called
TaskStat ==
    \E i \in Running :
        /\ tasks[i].pc = "stat"
        /\ \/ /\ exists(fs_data, entry_path(tasks[i]))
              /\ TaskStep(i, "release")
              /\ UNCHANGED <<fsVars, faults>>
           \/ /\ ~exists(fs_data, entry_path(tasks[i]))
              /\ TaskStep(i, "open")
              /\ UNCHANGED <<fsVars, faults>>
           \/ /\ TaskFault(i, "metadata")
              /\ UNCHANGED fsVars

\* lines 387-399: fs::create_dir_all(parent), then the create-exclusive
\* OpenOptions::new().write(true).create_new(true).open(&temp_file)
TaskOpen ==
    \E i \in Running :
        LET tmp == temp_file(entry_path(tasks[i])) IN
        /\ tasks[i].pc = "open"
        /\ \/ /\ ~exists(fs_data, tmp)
              /\ fs_data' = put(fs_data, tmp, Empty)
              /\ tasks' = [tasks EXCEPT ![i].pc = "write_all", ![i].created = TRUE]
              /\ UNCHANGED <<srpVars, engVars>>
              /\ UNCHANGED <<fs_indices, faults>>
           \/ /\ exists(fs_data, tmp)
              /\ TaskThrow(i, "AlreadyExists")
              /\ UNCHANGED <<fsVars, faults>>
           \/ \E step \in {"create_dir_all", "open"} :
                  /\ TaskFault(i, step)
                  /\ UNCHANGED fsVars

\* lines 400-408: fh.write_all(contents.bytes()); fh.flush(); drop(fh)
TaskWriteAll ==
    \E i \in Running :
        LET tmp == temp_file(entry_path(tasks[i])) IN
        /\ tasks[i].pc = "write_all"
        /\ \/ /\ fs_data' = put(fs_data, tmp, Whole(tasks[i].bytes))
              /\ TaskStep(i, "rename")
              /\ UNCHANGED <<fs_indices, faults>>
           \/ /\ fs_data' = put(fs_data, tmp, Partial)
              /\ TaskFault(i, "write_all")
              /\ UNCHANGED fs_indices
           \/ /\ fs_data' = put(fs_data, tmp, Whole(tasks[i].bytes))
              /\ TaskFault(i, "flush")
              /\ UNCHANGED fs_indices

\* TaskRename that goes on without renaming the temp
TaskRename_skips ==
    \E i \in Running :
        /\ tasks[i].pc = "rename"
        /\ TaskStep(i, "release")
        /\ UNCHANGED <<fsVars, faults>>

\* lines 409-411: fs::rename(&temp_file, &entry_path)
TaskRename ==
    \E i \in Running :
        LET tmp == temp_file(entry_path(tasks[i])) IN
        /\ tasks[i].pc = "rename"
        /\ \/ /\ fs_data' = rename(fs_data, tmp, entry_path(tasks[i]))
              /\ TaskStep(i, "release")
              /\ UNCHANGED <<fs_indices, faults>>
           \/ /\ TaskFault(i, "rename")
              /\ UNCHANGED fsVars

\* TaskRelease that keeps the payload until the task has returned
TaskRelease_keeps_payload ==
    \E i \in Running :
        LET r == release(srp, tasks[i].allocation) IN
        /\ tasks[i].pc = "release"
        /\ srp' = r.inner
        /\ tasks' = finish(i, [tasks[i] EXCEPT
                                  !.pc = "done",
                                  !.allocation = r.alloc,
                                  !.result = IF r.panic THEN Err("JoinError")
                                             ELSE Completion(tasks[i])])
        /\ hist' = IF i \in inserters /\ r.alloc.released
                   THEN [hist EXCEPT !.released = hist.released + 1]
                   ELSE hist
        /\ UNCHANGED <<overflow_checks, allocs, last_call, fsVars, faults, indices, pc,
                       name, root, inserters, event, alloc, result, drawn>>

\* lines 418-421: drop(contents); allocation.release().await; the task returns
\* (parent_path, file_name, identity)
TaskRelease ==
    \E i \in Running :
        LET r == release(srp, tasks[i].allocation) IN
        /\ tasks[i].pc = "release"
        /\ srp' = r.inner
        /\ tasks' = finish(i, [tasks[i] EXCEPT
                                  !.pc = "done", !.contents = "dropped",
                                  !.allocation = r.alloc,
                                  !.result = IF r.panic THEN Err("JoinError")
                                             ELSE Completion(tasks[i])])
        /\ hist' = IF i \in inserters /\ r.alloc.released
                   THEN [hist EXCEPT !.released = hist.released + 1]
                   ELSE hist
        /\ UNCHANGED <<overflow_checks, allocs, last_call, fsVars, faults, indices, pc,
                       name, root, inserters, event, alloc, result, drawn>>

(***************************************************************************)
(* The producer: an opaque stream of ImportEvent.                          *)
(***************************************************************************)
ImportEvent_Directory == {[kind |-> "Directory", path |-> <<"d">>]}

ImportEvent_File ==
    {[kind |-> "File", parent_path |-> {}, file_name |-> "f", size |-> 1,
      executable |-> FALSE],
     [kind |-> "File", parent_path |-> {<<"d">>}, file_name |-> "f", size |-> 2,
      executable |-> FALSE]}

ImportEvent_FileData == {[kind |-> "FileData", bytes |-> b] : b \in Contents}

ImportEvent_Error == {[kind |-> "Error"]}

ImportEvent ==
    ImportEvent_Directory \cup ImportEvent_File \cup ImportEvent_FileData
        \cup ImportEvent_Error

NoEvent == [kind |-> "None"]

\* the names import is called with
IndexNames == {"a", "a.tmp"}

(***************************************************************************)
(* SharedStorage::import and import_                                       *)
(***************************************************************************)
MAX_METADATA_SIZE == 1048576

\* entry names long enough for a tree of one entry to serialise to one byte
\* less than MAX_METADATA_SIZE, to exactly MAX_METADATA_SIZE, and to one byte more
LongNames == {"n1048522", "n1048523", "n1048524"}

\* OsStr::len of an entry name
name_len(c) == CASE c = "n1048522" -> MAX_METADATA_SIZE - 54
                 [] c = "n1048523" -> MAX_METADATA_SIZE - 53
                 [] c = "n1048524" -> MAX_METADATA_SIZE - 52
                 [] OTHER -> 1

RECURSIVE entries_len(_, _)
entries_len(dir, paths) ==
    IF paths = {} THEN 0
    ELSE LET p == CHOOSE q \in paths : TRUE IN
         39 + name_len(Last(p)) + entries_len(dir, paths \ {p})

\* the length of String::try_from(&dir): "{"entries":{}}" and, for each entry,
\* its quoted name and its value
serialised_len(dir) == 14 + entries_len(dir, DOMAIN dir)

InMemoryIndex(dir, dirty) == [dir |-> dir, dirty |-> dirty]

NoHist ==
    [pre_indices |-> <<>>, pre_fs_indices |-> <<>>, pre_claims_in_use |-> 0,
     admitted |-> 0, released |-> 0, detached |-> {}, busy |-> "none",
     data_draw |-> "none", data_released |-> FALSE, stage |-> "none",
     error |-> "none", blobs |-> {}, committed |-> <<>>, expected |-> <<>>]

\* the entries a stream announces: `path` is added to what was announced before
announce(tree, path, entry) ==
    IF path \in DOMAIN tree THEN tree ELSE (path :> entry) @@ tree

\* Option<T> is a set with at most one element
the(option) == CHOOSE x \in option : TRUE

\* the tasks of inserters whose JoinHandle is ready
Ready == {t \in inserters : tasks[t].pc = "done"}

\* the identifier of the next spawned task
fresh_task == CHOOSE i \in 1 .. (Cardinality(DOMAIN tasks) + 1) : i \notin DOMAIN tasks

\* merge that loses the completion
merge_loses(dir, c) == [err |-> "none", dir |-> dir]

\* lines 266-273, 303-311, 219-228: a completion is put into the tree
merge(dir, c) ==
    IF c.parent_path # {}
    THEN LET tr == traverse_mut(dir, the(c.parent_path), FALSE) IN
         IF tr.err # "none" THEN [err |-> tr.err, dir |-> tr.dir]
         ELSE insert_file(tr.dir, tr.here, c.file_name, c.identity)
    ELSE insert_file(dir, <<>>, c.file_name, c.identity)

\* what inserters.next() yields for task t, applied to the tree
reap(t) ==
    IF tasks[t].result.kind = "Err"
    THEN [err |-> tasks[t].result.err, dir |-> root]
    ELSE merge(root, tasks[t].result)

\* throw!(e) inside import_: import_ returns Err(e) and import drains (line 215)
throw(e) ==
    /\ pc' = "err_drain"
    /\ hist' = [hist EXCEPT !.error = e, !.stage = "events"]

\* import returns or unwinds: its locals root, inserters and the event are
\* dropped; a task that is still running goes on without its JoinHandle
return(r) ==
    /\ result' = r
    /\ root' = Directory_default
    /\ event' = NoEvent
    /\ inserters' = {}

\* storage.import(name, provider, content): lines 204-208
Import ==
    \E n \in IndexNames :
        /\ pc \in {"idle", "done"}
        /\ pc' = "next"
        /\ name' = n
        /\ root' = Directory_default
        /\ inserters' = {}
        /\ event' = NoEvent
        /\ result' = Pending
        /\ hist' = [NoHist EXCEPT !.pre_indices = indices,
                                  !.pre_fs_indices = fs_indices,
                                  !.pre_claims_in_use = srp.claims_in_use,
                                  !.committed = hist.committed]
        /\ UNCHANGED <<srpVars, fsVars, indices, alloc, tasks, drawn, faults>>

\* what an opaque producer can yield next: any event, or None (the counter of
\* drawn events is capped)
Offered == (IF drawn < MaxEvents THEN ImportEvent ELSE {}) \cup {NoEvent}

\* content.next().await at lines 259 and 348, the stream yielding one of `items`
NextEventOf(items) ==
    /\ pc = "next"
    /\ \E e \in items :
           IF e # NoEvent
           THEN /\ drawn' = drawn + 1
                /\ event' = e
                /\ pc' = "poll"
                /\ hist' = IF e.kind = "Directory"
                           THEN [hist EXCEPT !.expected =
                                    announce(hist.expected, e.path,
                                             DirectoryEntry_Directory)]
                           ELSE hist
           ELSE /\ event' = NoEvent
                /\ pc' = "final_drain"
                /\ hist' = [hist EXCEPT !.stage = "final_drain"]
                /\ UNCHANGED drawn
    /\ UNCHANGED <<srpVars, fsVars, indices, name, root, inserters, alloc, result,
                   tasks, faults>>

\* content.next().await at lines 259 and 348
NextEvent == NextEventOf(Offered)

\* lines 263-273: futures::poll!(inserters.next()) hands out a finished task
Poll ==
    /\ pc = "poll"
    /\ \E t \in Ready :
           LET r == reap(t) IN
           /\ inserters' = inserters \ {t}
           /\ tasks' = without(t)
           /\ root' = r.dir
           /\ IF r.err # "none" THEN throw(r.err) ELSE UNCHANGED <<pc, hist>>
    /\ UNCHANGED <<srpVars, fsVars, indices, name, event, alloc, result, drawn,
                   faults>>

\* EventErrorOrFileData that skips a FileData of the top level
EventErrorOrFileData_skips ==
    /\ pc = "poll"
    /\ Ready = {}
    /\ event.kind \in {"Error", "FileData"}
    /\ IF event.kind = "Error" THEN throw("ImportStreamError")
       ELSE pc' = "next" /\ UNCHANGED hist
    /\ UNCHANGED <<srpVars, fsVars, indices, name, root, inserters, event, alloc,
                   result, tasks, drawn, faults>>

\* lines 274, 278-279: nothing more is ready, and the event is Error or FileData
EventErrorOrFileData ==
    /\ pc = "poll"
    /\ Ready = {}
    /\ event.kind \in {"Error", "FileData"}
    /\ throw(IF event.kind = "Error" THEN "ImportStreamError" ELSE "UnexpectedFileData")
    /\ UNCHANGED <<srpVars, fsVars, indices, name, root, inserters, event, alloc,
                   result, tasks, drawn, faults>>

\* lines 280-288: what the event Directory(d) does to the tree
on_directory(dir, d) ==
    LET tr == traverse_mut(dir, the(parent(d)), FALSE) IN
    IF file_name(d) = {} THEN [err |-> "none", dir |-> dir]
    ELSE IF parent(d) = {} THEN mkdir(dir, <<>>, the(file_name(d)))
    ELSE IF tr.err # "none" THEN [err |-> tr.err, dir |-> tr.dir]
    ELSE mkdir(tr.dir, tr.here, the(file_name(d)))

\* lines 274, 280-288: nothing more is ready, and the event is Directory(d)
EventDirectory ==
    /\ pc = "poll"
    /\ Ready = {}
    /\ event.kind = "Directory"
    /\ LET made == on_directory(root, event.path)
       IN /\ root' = made.dir
          /\ IF made.err # "none" THEN throw(made.err)
             ELSE pc' = "next" /\ UNCHANGED hist
    /\ UNCHANGED <<srpVars, fsVars, indices, name, inserters, event, alloc, result,
                   tasks, drawn, faults>>

\* lines 274, 289-292: nothing more is ready, and the event is File: the claim
\* loop is entered
EventFile ==
    /\ pc = "poll"
    /\ Ready = {}
    /\ event.kind = "File"
    /\ pc' = "claim"
    /\ hist' = [hist EXCEPT !.busy = "none", !.data_draw = "none",
                            !.data_released = FALSE]
    /\ UNCHANGED <<srpVars, fsVars, indices, name, root, inserters, event, alloc,
                   result, tasks, drawn, faults>>

\* lines 293-301 and 314: provider.claim(size).await
Claim ==
    /\ pc = "claim"
    /\ LET r == claim(srp, event.size) IN
       /\ srp' = r.inner
       /\ CASE r.result = "Impossible" ->
                   /\ throw("ImpossibleFileClaim")
                   /\ UNCHANGED <<alloc, result, root, event, inserters, tasks>>
            [] r.result = "Busy" ->
                   /\ pc' = "busy"
                   /\ hist' = [hist EXCEPT !.busy = "waiting"]
                   /\ UNCHANGED <<alloc, result, root, event, inserters, tasks>>
            [] r.result = "Ok" ->
                   /\ alloc' = {SimpleResourceAllocation(event.size)}
                   /\ pc' = "data"
                   /\ hist' = [hist EXCEPT !.admitted = hist.admitted + 1]
                   /\ UNCHANGED <<result, root, event, inserters, tasks>>
            [] r.result = "Panic" ->
                   /\ pc' = "panicked"
                   /\ return([kind |-> "Panic"])
                   /\ tasks' = [j \in Running |-> tasks[j]]
                   /\ hist' = [hist EXCEPT !.detached = inserters \cap Running,
                                           !.expected = <<>>]
                   /\ UNCHANGED alloc
    /\ UNCHANGED <<overflow_checks, allocs, last_call, fsVars, indices, name, drawn,
                   faults>>

\* lines 302-313: inserters.next().await.transpose()?, then the loop claims again
Busy ==
    /\ pc = "busy"
    /\ \/ /\ inserters = {}
          /\ pc' = "claim"
          /\ hist' = [hist EXCEPT !.busy = "nothing_pending"]
          /\ UNCHANGED <<inserters, root, tasks>>
       \/ \E t \in Ready :
              LET r == reap(t) IN
              /\ inserters' = inserters \ {t}
              /\ tasks' = without(t)
              /\ root' = r.dir
              /\ IF r.err # "none" THEN throw(r.err)
                 ELSE pc' = "claim" /\ hist' = [hist EXCEPT !.busy = "reaped"]
    /\ UNCHANGED <<srpVars, fsVars, indices, name, event, alloc, result, drawn,
                   faults>>

\* lines 321 and 342: alloc.release().await, then throw!(e) drops alloc
release_and_throw(e, drew) ==
    LET r == release(srp, the(alloc)) IN
    /\ srp' = r.inner
    /\ alloc' = {}
    /\ pc' = "err_drain"
    /\ hist' = [hist EXCEPT !.error = e, !.stage = "events", !.data_draw = drew,
                            !.data_released = r.alloc.released,
                            !.released = IF r.alloc.released THEN hist.released + 1
                                         ELSE hist.released]
    /\ UNCHANGED <<inserters, tasks, result, root, event>>

\* lines 319-345: the event after a granted File must be its FileData; the
\* stream yields one of `items`
DataOf(items) ==
    /\ pc = "data"
    /\ \E e \in items :
        CASE e = NoEvent ->
               \* None: the stream ended
               /\ release_and_throw("UnexpectedEndOfContent", "None")
               /\ UNCHANGED drawn
          [] e.kind = "FileData" ->
               \* Some(ImportEvent::FileData(bytes)): the task is spawned
               /\ drawn' = drawn + 1
               /\ tasks' = (fresh_task :> import_file(the(alloc), event.parent_path,
                                                      event.file_name, event.executable,
                                                      e.bytes)) @@ tasks
               /\ inserters' = inserters \cup {fresh_task}
               /\ alloc' = {}
               /\ pc' = "next"
               /\ hist' = [hist EXCEPT
                      !.data_draw = "FileData",
                      !.expected = announce(
                          hist.expected,
                          IF event.parent_path = {} THEN <<event.file_name>>
                          ELSE Append(the(event.parent_path), event.file_name),
                          DirectoryEntry_File(StorageIdentifier(e.bytes, event.executable)))]
               /\ UNCHANGED <<srp, result, root, event>>
          [] e.kind = "Error" ->
               \* Some(ImportEvent::Error(e)): throw! with alloc still unreleased;
               \* the drop of alloc panics (drop_claim_impl) and unwinds out of import
               /\ drawn' = drawn + 1
               /\ alloc' = {}
               /\ IF the(alloc).released
                  THEN /\ pc' = "err_drain"
                       /\ hist' = [hist EXCEPT !.error = "ImportStreamError",
                                               !.stage = "events", !.data_draw = "Error"]
                       /\ UNCHANGED <<result, root, event, inserters, tasks>>
                  ELSE /\ pc' = "panicked"
                       /\ return([kind |-> "Panic"])
                       /\ tasks' = [j \in Running |-> tasks[j]]
                       /\ hist' = [hist EXCEPT !.data_draw = "Error", !.expected = <<>>,
                                               !.detached = inserters \cap Running]
               /\ UNCHANGED srp
          [] OTHER ->
               \* any other event
               /\ drawn' = drawn + 1
               /\ release_and_throw("ExpectedFileDataEvent", "Other")
    /\ UNCHANGED <<overflow_checks, allocs, last_call, fsVars, indices, name, faults>>

\* lines 319-345 with an opaque producer
Data == DataOf(Offered)

\* line 215: while let Some(_) = inserters.next().await {}
ErrDrain ==
    /\ pc = "err_drain"
    /\ \E t \in Ready :
           /\ inserters' = inserters \ {t}
           /\ tasks' = without(t)
    /\ UNCHANGED <<srpVars, fsVars, indices, pc, name, root, event, alloc, result,
                   drawn, faults, hist>>

\* ErrReturn that registers the tree built so far under the name
ErrReturn_registers ==
    /\ pc = "err_drain"
    /\ inserters = {}
    /\ pc' = "done"
    /\ return(Err(hist.error))
    /\ indices' = [n \in DOMAIN indices \cup {name} |->
                      IF n = name THEN InMemoryIndex(root, TRUE) ELSE indices[n]]
    /\ hist' = [hist EXCEPT !.expected = <<>>]
    /\ UNCHANGED <<srpVars, fsVars, name, alloc, tasks, drawn, faults>>

\* line 216: throw!(e) once inserters is empty
ErrReturn ==
    /\ pc = "err_drain"
    /\ inserters = {}
    /\ pc' = "done"
    /\ return(Err(hist.error))
    /\ hist' = [hist EXCEPT !.expected = <<>>]
    /\ UNCHANGED <<srpVars, fsVars, indices, name, alloc, tasks, drawn, faults>>

\* lines 219-228: inserters.next().await.transpose()?; the `?` returns from
\* import at once and drops inserters with the tasks that are still in it
FinalDrain ==
    /\ pc = "final_drain"
    /\ \E t \in Ready :
           LET r == reap(t) IN
           IF r.err # "none"
           THEN /\ pc' = "done"
                /\ return(Err(r.err))
                /\ tasks' = [j \in Running |-> tasks[j]]
                /\ hist' = [hist EXCEPT !.error = r.err, !.expected = <<>>,
                                        !.detached = inserters \cap Running]
           ELSE /\ root' = r.dir
                /\ inserters' = inserters \ {t}
                /\ tasks' = without(t)
                /\ UNCHANGED <<pc, result, event, hist>>
    /\ UNCHANGED <<srpVars, fsVars, indices, name, alloc, drawn, faults>>

\* the blob paths of the files of a tree
blobs(dir) == {filename(dir[p].id) : p \in {q \in DOMAIN dir : dir[q].kind = "File"}}

\* SaveFailed without line 240: the registration stays
SaveFailed_keeps_name(e) ==
    /\ indices' = indices
    /\ pc' = "done"
    /\ return(Err(e))
    /\ hist' = [hist EXCEPT !.error = e, !.stage = "commit", !.blobs = blobs(root),
                            !.expected = <<>>]

\* lines 239-242: self.indices.remove(name); throw!(e)
SaveFailed(e) ==
    /\ indices' = [n \in DOMAIN indices \ {name} |-> indices[n]]
    /\ pc' = "done"
    /\ return(Err(e))
    /\ hist' = [hist EXCEPT !.error = e, !.stage = "commit", !.blobs = blobs(root),
                            !.expected = <<>>]

\* Commit that also rejects a manifest of exactly MAX_METADATA_SIZE bytes
Commit_rejects_at_cap ==
    /\ pc = "final_drain"
    /\ inserters = {}
    /\ IF serialised_len(root) >= MAX_METADATA_SIZE
       THEN SaveFailed("IndexTooLarge")
       ELSE /\ indices' = [n \in DOMAIN indices \cup {name} |->
                              IF n = name THEN InMemoryIndex(root, TRUE) ELSE indices[n]]
            /\ pc' = "save_open"
            /\ hist' = [hist EXCEPT !.stage = "commit"]
            /\ UNCHANGED <<result, root, event, inserters>>
    /\ UNCHANGED <<srpVars, fsVars, name, alloc, tasks, drawn, faults>>

\* lines 231-237 and save_index lines 140-149: inserters is empty; the tree is
\* registered as dirty, serialised and its length checked
Commit ==
    /\ pc = "final_drain"
    /\ inserters = {}
    /\ IF serialised_len(root) > MAX_METADATA_SIZE
       THEN SaveFailed("IndexTooLarge")
       ELSE /\ indices' = [n \in DOMAIN indices \cup {name} |->
                              IF n = name THEN InMemoryIndex(root, TRUE) ELSE indices[n]]
            /\ pc' = "save_open"
            /\ hist' = [hist EXCEPT !.stage = "commit"]
            /\ UNCHANGED <<result, root, event, inserters>>
    /\ UNCHANGED <<srpVars, fsVars, name, alloc, tasks, drawn, faults>>

\* save_index lines 150-162: create-exclusive open of BASE/indices/<name>.tmp
SaveOpen ==
    /\ pc = "save_open"
    /\ \/ /\ ~exists(fs_indices, set_extension_tmp(name))
          /\ fs_indices' = put(fs_indices, set_extension_tmp(name), Empty)
          /\ pc' = "save_write"
          /\ UNCHANGED <<indices, result, root, event, inserters, hist, faults>>
       \/ /\ exists(fs_indices, set_extension_tmp(name))
          /\ SaveFailed("WritingIndex")
          /\ UNCHANGED <<fs_indices, faults>>
       \/ /\ MayFail
          /\ faults' = faults + 1
          /\ SaveFailed("WritingIndex")
          /\ UNCHANGED fs_indices
    /\ UNCHANGED <<srpVars, fs_data, name, alloc, tasks, drawn>>

\* save_index lines 163-171: fh.write_all(dir_s.as_bytes()); fh.flush(); drop(fh)
SaveWrite ==
    /\ pc = "save_write"
    /\ \/ /\ fs_indices' = put(fs_indices, set_extension_tmp(name),
                               Whole(indices[name].dir))
          /\ pc' = "save_rename"
          /\ UNCHANGED <<indices, result, root, event, inserters, hist, faults>>
       \/ /\ MayFail
          /\ faults' = faults + 1
          /\ fs_indices' \in {put(fs_indices, set_extension_tmp(name), Partial),
                              put(fs_indices, set_extension_tmp(name),
                                  Whole(indices[name].dir))}
          /\ SaveFailed("WritingIndex")
    /\ UNCHANGED <<srpVars, fs_data, name, alloc, tasks, drawn>>

\* save_index lines 172-179: rename the temp onto BASE/indices/<name>; on failure
\* remove the temp, ignoring the outcome of the removal (which is one more I/O
\* error when it fails)
SaveRename ==
    /\ pc = "save_rename"
    /\ \/ /\ fs_indices' = rename(fs_indices, set_extension_tmp(name), name)
          /\ indices' = [indices EXCEPT ![name].dirty = FALSE]
          /\ pc' = "done"
          /\ return([kind |-> "Ok"])
          /\ hist' = [hist EXCEPT !.expected = <<>>, !.committed =
                          [n \in DOMAIN hist.committed \cup {name} |->
                              IF n = name THEN indices[name].dir ELSE hist.committed[n]]]
          /\ UNCHANGED faults
       \/ /\ MayFail
          /\ \/ /\ faults' = faults + 1
                /\ fs_indices' = remove_file(fs_indices, set_extension_tmp(name))
             \/ /\ faults + 1 < MaxFaults
                /\ faults' = faults + 2
                /\ fs_indices' = fs_indices
          /\ SaveFailed("WritingIndex")
    /\ UNCHANGED <<srpVars, fs_data, name, alloc, tasks, drawn>>

(***************************************************************************)
(* SharedStorage::new on a root that has been used                         *)
(***************************************************************************)
\* load_indices lines 104-122: every regular file of BASE/indices is read and
\* parsed, and registered under its file name
\* read_dir yields the files in no particular order, so the file that fails
\* first is any of the files that fail; the outcomes are a set
load_indices(files) ==
    LET present == {f \in DOMAIN files : exists(files, f)}
        failures ==
            {"IndexTooLarge" : f \in {g \in present :
                 files[g].state = "whole"
                     /\ serialised_len(files[g].body) > MAX_METADATA_SIZE}}
            \cup {"ParsingIndex" : f \in {g \in present : files[g].state # "whole"}}
    IN  IF failures # {}
        THEN {[err |-> e, indices |-> <<>>] : e \in failures}
        ELSE {[err |-> "none",
               indices |-> [f \in present |-> InMemoryIndex(files[f].body, FALSE)]]}

\* SharedStorage::new(base), lines 91-100, once no import is running: the
\* storage object is dropped and built again from the root
New ==
    /\ pc \in {"idle", "done"}
    /\ name' = "a"
    /\ hist' = [NoHist EXCEPT !.committed = hist.committed]
    /\ \/ \E r \in load_indices(fs_indices) :
          /\ indices' = r.indices
          /\ IF r.err = "none"
             THEN pc' = "idle" /\ result' = Pending
             ELSE pc' = "new_failed" /\ result' = Err(r.err)
          /\ UNCHANGED faults
       \/ /\ MayFail
          /\ faults' = faults + 1
          /\ indices' = <<>>
          /\ pc' = "new_failed"
          /\ result' = Err("Preparing")
    /\ UNCHANGED <<srpVars, fsVars, root, inserters, event, alloc, tasks, drawn>>

(***************************************************************************)
(* Spec: a storage opened on an empty root; imports run one after another  *)
(* with one provider, fed by an arbitrary producer; spawned tasks run      *)
(* concurrently with the import and with each other.                       *)
(***************************************************************************)
EngineIdle ==
    /\ fs_data = <<>>
    /\ fs_indices = <<>>
    /\ indices = <<>>
    /\ pc = "idle"
    /\ name = "a"
    /\ root = Directory_default
    /\ inserters = {}
    /\ event = NoEvent
    /\ alloc = {}
    /\ result = Pending
    /\ tasks = <<>>
    /\ drawn = 0
    /\ faults = 0
    /\ hist = NoHist

\* the sizes of the events cannot overflow the counters, so the two build
\* profiles behave alike here; SpecSRP has both
Init ==
    /\ overflow_checks = FALSE
    /\ srp \in {new(c, 2) : c \in 0 .. 2} \cup {new_with_max_space(2, 2, 1)}
    /\ allocs = <<>>
    /\ last_call = NoCall
    /\ EngineIdle

Next ==
    \/ New
    \/ Import
    \/ NextEvent
    \/ Poll
    \/ EventErrorOrFileData
    \/ EventDirectory
    \/ EventFile
    \/ Claim
    \/ Busy
    \/ Data
    \/ ErrDrain
    \/ ErrReturn
    \/ FinalDrain
    \/ Commit
    \/ SaveOpen
    \/ SaveWrite
    \/ SaveRename
    \/ TaskStat
    \/ TaskOpen
    \/ TaskWriteAll
    \/ TaskRename
    \/ TaskRelease

Spec == Init /\ [][Next]_vars

\* the steps of a running import, and the steps of the spawned tasks
EngineSteps ==
    \/ NextEvent
    \/ Poll
    \/ EventErrorOrFileData
    \/ EventDirectory
    \/ EventFile
    \/ Claim
    \/ Busy
    \/ Data
    \/ ErrDrain
    \/ ErrReturn
    \/ FinalDrain
    \/ Commit
    \/ SaveOpen
    \/ SaveWrite
    \/ SaveRename

TaskSteps == TaskStat \/ TaskOpen \/ TaskWriteAll \/ TaskRename \/ TaskRelease

\* the executor keeps polling the import while it can go on, and every spawned
\* task while it can go on
SpecLive == Spec /\ WF_vars(EngineSteps) /\ WF_vars(TaskSteps)

(***************************************************************************)
(* SpecSRP: a provider used by a free client that claims any size and      *)
(* releases (also repeatedly) any handle it was granted, in any order.     *)
(***************************************************************************)
SRPInit ==
    /\ overflow_checks \in BOOLEAN
    /\ srp \in {new(c, s) : c \in 0 .. MaxClaims, s \in 0 .. MaxSpace}
               \cup {new_with_max_space(c, s, m) :
                        c \in 0 .. MaxClaims, s \in 0 .. MaxSpace, m \in 0 .. MaxSpace}
    /\ allocs = <<>>
    /\ last_call = NoCall
    /\ EngineIdle

SRPClaim ==
    \E size \in Usize :
        LET r == claim(srp, size) IN
        /\ Len(allocs) < MaxHandles
        /\ srp' = r.inner
        /\ allocs' = IF r.result = "Ok"
                     THEN Append(allocs, SimpleResourceAllocation(size))
                     ELSE allocs
        /\ last_call' = [op |-> "claim", size |-> size, result |-> r.result,
                         before |-> srp]
        /\ UNCHANGED <<overflow_checks, fsVars, engVars, tasks, faults>>

SRPRelease ==
    \E h \in 1 .. Len(allocs) :
        LET r == release(srp, allocs[h]) IN
        /\ srp' = r.inner
        /\ allocs' = [allocs EXCEPT ![h] = r.alloc]
        /\ last_call' = [op |-> "release", handle |-> h, panic |-> r.panic,
                         was_released |-> allocs[h].released, before |-> srp]
        /\ UNCHANGED <<overflow_checks, fsVars, engVars, tasks, faults>>

SRPNext == SRPClaim \/ SRPRelease

SpecSRP == SRPInit /\ [][SRPNext]_vars

(***************************************************************************)
(* SpecTree: a Directory tree that receives, in any order, what the import *)
(* does to its tree: Directory events, merged completions, and insert_file *)
(* on a directory reached by traverse_mut.                                 *)
(***************************************************************************)
\* the paths of the Directory events and of the parents of files
TreePaths == {<<"d">>, <<"e">>, <<"d", "e">>, <<"e", "d">>, <<"d", "d">>, <<".", "d">>}

\* the file names
TreeNames == {"d", "f"}

\* the identifiers of the files
TreeIdentities == {StorageIdentifier(b, FALSE) : b \in Contents}

treeFrame == <<overflow_checks, srp, allocs, fsVars, indices, pc, name, inserters,
               event, alloc, result, tasks, drawn, faults, hist>>

TreeInit ==
    /\ overflow_checks = FALSE
    /\ srp = new(1, 1)
    /\ allocs = <<>>
    /\ last_call = NoCall
    /\ EngineIdle

\* storage.rs lines 280-288 on an event Directory(d)
TreeDirectory ==
    \E d \in TreePaths :
        LET r == on_directory(root, d) IN
        /\ Cardinality(DOMAIN root) < MaxEntries
        /\ root' = r.dir
        /\ last_call' = [op |-> "Directory", path |-> d, before |-> root, err |-> r.err]
        /\ UNCHANGED treeFrame

\* storage.rs lines 266-272 on a completion (parent_path, file_name, identity)
TreeMerge ==
    \E pp \in {{}} \cup {{q} : q \in TreePaths}, n \in TreeNames, id \in TreeIdentities :
        LET c == [kind |-> "Ok", parent_path |-> pp, file_name |-> n, identity |-> id]
            r == merge(root, c)
        IN  /\ Cardinality(DOMAIN root) < MaxEntries
            /\ root' = r.dir
            /\ last_call' = [op |-> "merge", completion |-> c, before |-> root,
                             err |-> r.err]
            /\ UNCHANGED treeFrame

\* Directory::insert_file(name, id) on the root or on one of its directories
TreeInsertFile ==
    \E here \in {<<>>} \cup {q \in DOMAIN root : root[q].kind = "Directory"},
       n \in TreeNames, id \in TreeIdentities :
        LET r == insert_file(root, here, n, id) IN
        /\ Cardinality(DOMAIN root) < MaxEntries
        /\ root' = r.dir
        /\ last_call' = [op |-> "insert_file", here |-> here, file_name |-> n,
                         identity |-> id, before |-> root, err |-> r.err]
        /\ UNCHANGED treeFrame

\* the directories of the tree, the root included
TreeDirectories == {<<>>} \cup {q \in DOMAIN root : root[q].kind = "Directory"}

\* Directory::mkdir(name) on the root or on one of its directories
TreeMkdir ==
    \E here \in TreeDirectories, n \in TreeNames :
        LET r == mkdir(root, here, n) IN
        /\ Cardinality(DOMAIN root) < MaxEntries
        /\ root' = r.dir
        /\ last_call' = [op |-> "mkdir", here |-> here, file_name |-> n,
                         before |-> root, err |-> r.err]
        /\ UNCHANGED treeFrame

\* the paths handed to traverse and traverse_mut: relative ones, with and
\* without a current-directory component, and ones holding a root, a parent or
\* a prefix component
TraversePaths ==
    TreePaths \cup {<<>>, <<"f">>, <<"d", "f">>, <<"d", "f", "e">>, <<"/", "d">>,
                    <<"d", "..">>, <<"e", "..", "d">>, <<"C:", "d">>}

\* Directory::traverse(path)
TreeTraverse ==
    \E path \in TraversePaths :
        LET r == traverse(root, path) IN
        /\ Cardinality(DOMAIN root) < MaxEntries
        /\ root' = r.dir
        /\ last_call' = [op |-> "traverse", path |-> path, create |-> FALSE,
                         before |-> root, err |-> r.err, here |-> r.here]
        /\ UNCHANGED treeFrame

\* Directory::traverse_mut(path, create)
TreeTraverseMut ==
    \E path \in TraversePaths, create \in BOOLEAN :
        LET r == traverse_mut(root, path, create) IN
        /\ Cardinality(DOMAIN root) < MaxEntries
        /\ root' = r.dir
        /\ last_call' = [op |-> "traverse_mut", path |-> path, create |-> create,
                         before |-> root, err |-> r.err, here |-> r.here]
        /\ UNCHANGED treeFrame

TreeNext ==
    \/ TreeDirectory
    \/ TreeMerge
    \/ TreeInsertFile
    \/ TreeMkdir
    \/ TreeTraverse
    \/ TreeTraverseMut

SpecTree == TreeInit /\ [][TreeNext]_vars

(***************************************************************************)
(* SpecIndex: the manifests of a storage whose trees serialise to lengths  *)
(* around MAX_METADATA_SIZE.  An import is taken up where its stream, one  *)
(* Directory event, has ended; between two uses of the root other programs *)
(* may leave files in BASE/indices.                                        *)
(***************************************************************************)
\* the trees import_ builds from the stream Directory(n)
CapTrees == {on_directory(Directory_default, <<n>>).dir : n \in LongNames}

\* what another program leaves in a file: a manifest of the cap's length, a
\* longer one, or something that does not parse
ForeignContents ==
    {Whole(t) : t \in {u \in CapTrees : serialised_len(u) >= MAX_METADATA_SIZE}}
        \cup {Partial}

\* import lines 204-230 for a stream that announced one directory and ended:
\* import_ has returned Ok and inserters is empty
IndexImport ==
    \E n \in IndexNames, tree \in CapTrees :
        /\ pc \in {"idle", "done"}
        /\ pc' = "final_drain"
        /\ name' = n
        /\ root' = tree
        /\ inserters' = {}
        /\ event' = NoEvent
        /\ result' = Pending
        /\ hist' = [NoHist EXCEPT !.pre_indices = indices,
                                  !.pre_fs_indices = fs_indices,
                                  !.pre_claims_in_use = srp.claims_in_use,
                                  !.committed = hist.committed]
        /\ last_call' = [op |-> "import", tree |-> tree]
        /\ UNCHANGED <<overflow_checks, srp, allocs, fsVars, indices, alloc, tasks,
                       drawn, faults>>

\* load_indices lines 104-110: a regular file that this storage did not write
\* is found in BASE/indices; it holds a manifest or something that does not
\* parse, or it is the temp file an interrupted commit of "a.tmp" would leave
\* if temps were named by appending ".tmp"
IndexForeignFile ==
    \E f \in IndexNames \cup {"a.tmp.tmp"}, content \in ForeignContents :
        /\ pc = "done"
        /\ f = "a.tmp.tmp" => content = Partial
        /\ fs_indices' = put(fs_indices, f, content)
        /\ last_call' = [op |-> "foreign", tree |-> Directory_default]
        /\ UNCHANGED <<overflow_checks, srp, allocs, fs_data, engVars, tasks, faults>>

IndexNext ==
    \/ IndexImport
    \/ Commit
    \/ SaveOpen
    \/ SaveWrite
    \/ SaveRename
    \/ IndexForeignFile
    \/ New

SpecIndex == TreeInit /\ [][IndexNext]_vars

(***************************************************************************)
(* SpecFSI: FSImportStream (util.rs) over the entries its scan has found.  *)
(* last_call holds the stream object, event the event it returned last.    *)
(***************************************************************************)
FSEntry_Dir(path) == [tag |-> "Dir", path |-> path]

FSEntry_File(pd, fname, size, exec) ==
    [tag |-> "File", pd |-> pd, fname |-> fname, size |-> size, exec |-> exec]

\* an entry of the scanned tree as read_dir and metadata report it
FSNode_Dir(path) == [is_dir |-> TRUE, path |-> path, len |-> 0, executable |-> FALSE]

FSNode_File(path, size, exec) ==
    [is_dir |-> FALSE, path |-> path, len |-> size, executable |-> exec]

FSNodes ==
    {FSNode_Dir(<<"d">>), FSNode_Dir(<<"d", "e">>), FSNode_File(<<"f">>, 1, FALSE),
     FSNode_File(<<"g">>, 2, TRUE), FSNode_File(<<"d", "f">>, 2, FALSE)}

\* the trees below base_path: what lies in a directory lies in one of the tree
FSTrees ==
    {t \in SUBSET FSNodes :
        /\ Cardinality(t) <= MaxScanned
        /\ \A n \in t : Len(n.path) > 1 => FSNode_Dir(Front(n.path)) \in t}

\* fs::read_dir(fs_path): the entries of the directory at sub_path
read_dir(tree, sub_path) == {n \in tree : Front(n.path) = sub_path}

\* where scan_dir found an entry
found_in(e) == IF e.tag = "Dir" THEN Front(e.path)
               ELSE IF e.pd = {} THEN <<>> ELSE the(e.pd)

\* scanned_dir that pushes the directory after what the scan found below it
scanned_dir_after(path, below) == below \o <<FSEntry_Dir(path)>>

\* lines 200-206: Dir(sub_path) is pushed, then the directory is scanned
scanned_dir(path, below) == <<FSEntry_Dir(path)>> \o below

\* lines 207-220: the File entry of node n found while scanning sub_path
scanned_file(sub_path, n) ==
    FSEntry_File(IF parent(sub_path) # {} THEN {sub_path} ELSE {},
                 Last(n.path), n.len, n.executable)

\* scan_dir(fs_path, sub_path, entries): what it can append to entries while
\* `reader` has the nodes of `reader` left to yield, in any order
RECURSIVE scan_dir(_, _, _)
scan_dir(tree, sub_path, reader) ==
    IF reader = {} THEN {<<>>}
    ELSE UNION {
             {first \o rest :
                  first \in (IF n.is_dir
                             THEN {scanned_dir(n.path, below) :
                                      below \in scan_dir(tree, n.path,
                                                         read_dir(tree, n.path))}
                             ELSE {<<scanned_file(sub_path, n)>>}),
                  rest \in scan_dir(tree, sub_path, reader \ {n})}
             : n \in reader}

\* the entries FSImportStream::new can hold after its scan
Scans == UNION {scan_dir(t, <<>>, read_dir(t, <<>>)) : t \in FSTrees}

FSIMachine_Start == [tag |-> "Start", n |-> 0]

FSIMachine_Finished == [tag |-> "Finished", n |-> 0]

FSIMachine_Next(n) == [tag |-> "Next", n |-> n]

FSIMachine_Data(n) == [tag |-> "Data", n |-> n]

\* the event of a scanned entry
event_of(e) ==
    IF e.tag = "Dir" THEN [kind |-> "Directory", path |-> e.path]
    ELSE [kind |-> "File", parent_path |-> e.pd, file_name |-> e.fname,
          size |-> e.size, executable |-> e.exec]

\* next_event that goes on to the next entry after a failed read
next_event_goes_on(entries, state) ==
    LET at == IF state.tag = "Start" /\ entries # <<>> THEN FSIMachine_Next(0)
              ELSE state
        none == [event |-> NoEvent, state |-> FSIMachine_Finished]
    IN  CASE at.tag \in {"Start", "Finished"} -> {none}
          [] at.tag = "Data" ->
                IF entries[at.n + 1].tag = "File"
                THEN {[event |-> [kind |-> "Error"], state |-> FSIMachine_Next(at.n + 1)]}
                     \cup {[event |-> [kind |-> "FileData", bytes |-> b],
                            state |-> FSIMachine_Next(at.n + 1)] : b \in Contents}
                ELSE {none}
          [] at.tag = "Next" ->
                IF at.n = Len(entries) THEN {none}
                ELSE IF entries[at.n + 1].tag = "Dir"
                THEN {[event |-> event_of(entries[at.n + 1]),
                       state |-> FSIMachine_Next(at.n + 1)]}
                ELSE {[event |-> event_of(entries[at.n + 1]),
                       state |-> FSIMachine_Data(at.n)]}

\* FSImportStream::next_event: the events it can return and the state it is
\* left in; self.state is Finished unless an arm assigns it; fs::read of the
\* file fails or returns the bytes the file holds by then
next_event(entries, state) ==
    LET at == IF state.tag = "Start" /\ entries # <<>> THEN FSIMachine_Next(0)
              ELSE state
        none == [event |-> NoEvent, state |-> FSIMachine_Finished]
    IN  CASE at.tag \in {"Start", "Finished"} -> {none}
          [] at.tag = "Data" ->
                IF entries[at.n + 1].tag = "File"
                THEN {[event |-> [kind |-> "Error"], state |-> FSIMachine_Finished]}
                     \cup {[event |-> [kind |-> "FileData", bytes |-> b],
                            state |-> FSIMachine_Next(at.n + 1)] : b \in Contents}
                ELSE {none}
          [] at.tag = "Next" ->
                IF at.n = Len(entries) THEN {none}
                ELSE IF entries[at.n + 1].tag = "Dir"
                THEN {[event |-> event_of(entries[at.n + 1]),
                       state |-> FSIMachine_Next(at.n + 1)]}
                ELSE {[event |-> event_of(entries[at.n + 1]),
                       state |-> FSIMachine_Data(at.n)]}

\* FSImportStream::new(base_path) after a scan that succeeded
FSInit ==
    /\ overflow_checks = FALSE
    /\ srp = new(1, 1)
    /\ allocs = <<>>
    /\ \E es \in Scans :
           last_call = [op |-> "next_event", entries |-> es, state |-> FSIMachine_Start,
                        ended |-> FALSE]
    /\ EngineIdle

\* into_stream: unfold calls next_event until it returns None
FSINextEvent ==
    /\ ~last_call.ended
    /\ \E r \in next_event(last_call.entries, last_call.state) :
           /\ event' = r.event
           /\ last_call' = [last_call EXCEPT !.state = r.state,
                                             !.ended = (r.event = NoEvent)]
    /\ UNCHANGED <<overflow_checks, srp, allocs, fsVars, indices, pc, name, root,
                   inserters, alloc, result, tasks, drawn, faults, hist>>

FSINext == FSINextEvent

SpecFSI == FSInit /\ [][FSINext]_vars

(***************************************************************************)
(* SpecSched: one event stream imported twice, each time into a storage    *)
(* opened on an empty root with a provider of the same parameters, no I/O  *)
(* call failing.  last_call holds the stream, the provider, the number of  *)
(* the run and the outcome of the first run; the spawned tasks are         *)
(* scheduled freely in both runs.                                          *)
(***************************************************************************)
\* the streams a producer can yield
Streams == UNION {[1 .. n -> ImportEvent] : n \in 0 .. MaxEvents}

\* content.next().await: the next event of the stream, None after its last
next_of_stream ==
    IF drawn < Len(last_call.events) THEN {last_call.events[drawn + 1]} ELSE {}

SchedIdle ==
    /\ fs_data = <<>>
    /\ fs_indices = <<>>
    /\ indices = <<>>
    /\ pc = "idle"
    /\ name = "a"
    /\ root = Directory_default
    /\ inserters = {}
    /\ event = NoEvent
    /\ alloc = {}
    /\ result = Pending
    /\ tasks = <<>>
    /\ drawn = 0
    /\ faults = MaxFaults
    /\ hist = NoHist

SchedInit ==
    /\ overflow_checks = FALSE
    /\ srp \in {new(c, 2) : c \in 1 .. 2}
    /\ allocs = <<>>
    /\ \E s \in Streams :
           last_call = [op |-> "stream", events |-> s, provider |-> srp, run |-> 1,
                        first |-> Pending]
    /\ SchedIdle

\* storage.import("a", provider, content)
SchedImport ==
    /\ pc = "idle"
    /\ Import
    /\ name' = "a"

\* the stream of last_call as content: its next event, None after the last
stream_next == IF next_of_stream = {} THEN {NoEvent} ELSE next_of_stream

\* content.next().await at lines 259 and 348 on the stream of last_call
SchedNextEvent == NextEventOf(stream_next)

\* content.next().await at line 319 on the stream of last_call
SchedData == DataOf(stream_next)

\* the first import has returned or unwound: the same stream is imported again
\* into a storage opened on an empty root, with a provider built as the first
SchedAgain ==
    /\ pc \in {"done", "panicked"}
    /\ last_call.run = 1
    /\ last_call' = [last_call EXCEPT !.run = 2, !.first = result]
    /\ srp' = last_call.provider
    /\ fs_data' = <<>>
    /\ fs_indices' = <<>>
    /\ indices' = <<>>
    /\ pc' = "idle"
    /\ name' = "a"
    /\ root' = Directory_default
    /\ inserters' = {}
    /\ event' = NoEvent
    /\ alloc' = {}
    /\ result' = Pending
    /\ tasks' = <<>>
    /\ drawn' = 0
    /\ hist' = NoHist
    /\ UNCHANGED <<overflow_checks, allocs, faults>>

SchedNext ==
    \/ SchedImport
    \/ SchedNextEvent
    \/ Poll
    \/ EventErrorOrFileData
    \/ EventDirectory
    \/ EventFile
    \/ Claim
    \/ Busy
    \/ SchedData
    \/ ErrDrain
    \/ ErrReturn
    \/ FinalDrain
    \/ Commit
    \/ SaveOpen
    \/ SaveWrite
    \/ SaveRename
    \/ TaskStat
    \/ TaskOpen
    \/ TaskWriteAll
    \/ TaskRename
    \/ TaskRelease
    \/ SchedAgain

SpecSched == SchedInit /\ [][SchedNext]_vars

(***************************************************************************)
(* SpecFSImport: the events of an FSImportStream imported into a storage   *)
(* opened on an empty root.  last_call holds the scanned entries and the   *)
(* events the stream yields.                                               *)
(***************************************************************************)
\* into_stream: the event sequences unfold(self, next_event) can yield
RECURSIVE into_stream(_, _)
into_stream(entries, state) ==
    UNION {IF r.event = NoEvent THEN {<<>>}
           ELSE {<<r.event>> \o t : t \in into_stream(entries, r.state)}
           : r \in next_event(entries, state)}

\* storage.import("a", provider, FSImportStream::new(base).into_stream())
FSImportInit ==
    /\ overflow_checks = FALSE
    /\ srp \in {new(c, 2) : c \in 1 .. 2}
    /\ allocs = <<>>
    /\ \E es \in Scans :
           \E s \in into_stream(es, FSIMachine_Start) :
               last_call = [op |-> "stream", entries |-> es, events |-> s]
    /\ EngineIdle

\* the stream yields Error and FileData only after a File event, so the arm
\* of lines 278-279 is not reached
FSImportNext ==
    \/ SchedImport
    \/ SchedNextEvent
    \/ Poll
    \/ EventDirectory
    \/ EventFile
    \/ Claim
    \/ Busy
    \/ SchedData
    \/ ErrDrain
    \/ ErrReturn
    \/ FinalDrain
    \/ Commit
    \/ SaveOpen
    \/ SaveWrite
    \/ SaveRename
    \/ TaskStat
    \/ TaskOpen
    \/ TaskWriteAll
    \/ TaskRename
    \/ TaskRelease

SpecFSImport == FSImportInit /\ [][FSImportNext]_vars

(***************************************************************************)
(* Claims about the SimpleResourceProvider (checked under SpecSRP)         *)
(***************************************************************************)
\* the handles granted and not yet released
Outstanding == {h \in 1 .. Len(allocs) : ~allocs[h].released}

RECURSIVE SumOfSpace(_)
SumOfSpace(hs) ==
    IF hs = {} THEN 0
    ELSE LET h == CHOOSE x \in hs : TRUE IN allocs[h].space + SumOfSpace(hs \ {h})

\* the decision table of section 4.D, over the unbounded integers
ClaimContract(inner, size) ==
    IF \E max \in inner.max_space : size > max THEN "Impossible"
    ELSE IF inner.claims_in_use = inner.claims THEN "Busy"
    ELSE IF inner.claims_in_use > 0 /\ inner.space_in_use + size > inner.space THEN "Busy"
    ELSE "Ok"

\* C2: no reachable state of a provider (C, S) has claims_in_use > C, and none
\* has both claims_in_use > 1 and space_in_use > S.
C2_BudgetNeverExceeded ==
    /\ srp.claims_in_use <= srp.claims
    /\ ~(srp.claims_in_use > 1 /\ srp.space_in_use > srp.space)

\* C3: for every counter state and every size, claim(size) returns what the
\* decision table says: Impossible, else Busy on the claim count, else Busy on
\* the soft space cap while a claim is outstanding, else Ok.
C3_ClaimFollowsDecisionTable ==
    last_call.op = "claim" =>
        last_call.result = ClaimContract(last_call.before, last_call.size)

\* C4: claims_in_use is the number of handles granted and not yet released and
\* space_in_use is the sum of their sizes; a Busy or Impossible claim and a
\* repeated release change nothing; the spare counters are derived from them.
C4_CountersMatchHandles ==
    /\ srp.claims_in_use = Cardinality(Outstanding)
    /\ srp.space_in_use = SumOfSpace(Outstanding)
    /\ (last_call.op = "claim" /\ last_call.result \in {"Busy", "Impossible"})
           => srp = last_call.before
    /\ (last_call.op = "release" /\ last_call.was_released) => srp = last_call.before
    /\ Outstanding = {} => (srp.claims_in_use = 0 /\ srp.space_in_use = 0)
    /\ spare_claims = srp.claims - Cardinality(Outstanding)
    /\ spare_space = IF srp.space - SumOfSpace(Outstanding) > 0
                     THEN srp.space - SumOfSpace(Outstanding) ELSE 0

(***************************************************************************)
(* Claims about one import (checked under Spec)                            *)
(***************************************************************************)
\* the import call has just returned to its caller
Returns == pc # "done" /\ pc' = "done"

\* C1: when import returns, with success or with any error, every handle the
\* provider admitted during the call has been released, so as many handles were
\* released as admitted and claims_in_use is what it was before the call.
C1_AdmittedHandlesReleased ==
    [][Returns => /\ hist'.released = hist'.admitted
                  /\ srp'.claims_in_use = hist'.pre_claims_in_use]_vars

\* C5: when import returns an error, on every abort path, every task it
\* spawned has run to completion (none outlives the call) and the error is the
\* first one seen.
C5_NoTaskOutlivesImport ==
    (pc = "done" /\ result.kind = "Err") =>
        /\ hist.detached = {}
        /\ result.err = hist.error

\* C6: between a Busy result of claim and the next call of claim for the same
\* file, the engine has consumed the completion of at least one task.
C6_BusyWaitsForCompletion ==
    (pc = "claim" /\ hist.busy # "none") => hist.busy = "reaped"

\* C7: when the draw after a granted File is not FileData, the handle is
\* released and the import aborts with UnexpectedEndOfContent (stream ended),
\* ImportStreamError (Error event) or ExpectedFileDataEvent (any other event).
C7_NoFileDataReleasesAndAborts ==
    hist.data_draw \in {"None", "Error", "Other"} =>
        /\ hist.data_released
        /\ pc \in {"err_drain", "done"}
        /\ hist.error = CASE hist.data_draw = "None" -> "UnexpectedEndOfContent"
                          [] hist.data_draw = "Error" -> "ImportStreamError"
                          [] hist.data_draw = "Other" -> "ExpectedFileDataEvent"
        /\ pc = "done" => result = Err(hist.error)

\* C8: a task whose blob persistence hit an I/O error at any step has released
\* its handle when it finishes and yields IOErrorAddingToStorage, which is the
\* error import fails with (never JoinError).
C8_IOErrorReleasesAndReports ==
    /\ \A i \in DOMAIN tasks :
           (tasks[i].pc = "done" /\ tasks[i].io_error # "none") =>
               /\ tasks[i].allocation.released
               /\ tasks[i].result = Err("IOErrorAddingToStorage")
    /\ hist.error # "JoinError"

\* C9: when import fails before the commit step, the registered indices and the
\* files under BASE/indices (temps included) are what they were before the call.
C9_FailureBeforeCommitChangesNothing ==
    (pc = "done" /\ result.kind = "Err" /\ hist.stage # "commit") =>
        /\ indices = hist.pre_indices
        /\ fs_indices = hist.pre_fs_indices

\* C9 witness: an import that saw a failed task or a tree conflict returned its
\* error while an earlier import's index was registered and on disk.
C9_Witness ==
    /\ pc = "done"
    /\ result.kind = "Err"
    /\ hist.stage \in {"events", "final_drain"}
    /\ hist.admitted > 0
    /\ DOMAIN hist.pre_indices # {}
    /\ \E f \in DOMAIN fs_indices : exists(fs_indices, f)

\* C10: when save_index fails during import, at the return of import the name
\* is not registered, the error is the commit error, and the blobs of the files
\* of that import are on disk.
C10_CommitFailureUnregisters ==
    (pc = "done" /\ result.kind = "Err" /\ hist.stage = "commit") =>
        /\ name \notin DOMAIN indices
        /\ result.err \in {"WritingIndex", "IndexTooLarge"}
        /\ \A b \in hist.blobs : exists(fs_data, b) /\ fs_data[b].state = "whole"

\* C10 witness: a commit failed after the import had stored a blob.
C10_Witness ==
    /\ pc = "done"
    /\ result = Err("WritingIndex")
    /\ hist.stage = "commit"
    /\ hist.blobs # {}

\* the trees of the registered indices
trees(ix) == [n \in DOMAIN ix |-> ix[n].dir]

\* C11: after any sequence of imports, failed ones included, SharedStorage::new
\* on the same root succeeds and registers exactly the names whose commit last
\* succeeded, each with the tree that was committed.
C11_ReopenGivesCommitted ==
    /\ (pc = "new_failed") => result.err = "Preparing"
    /\ (pc = "idle") => trees(indices) = hist.committed

\* the blob paths the events of the producer can lead to
BlobPaths == {filename(StorageIdentifier(b, e.executable)) :
                 b \in Contents, e \in ImportEvent_File}

\* C12: over all tasks of all imports a blob path is written at most once: a
\* temp is renamed onto a blob path only while that path does not exist, so an
\* existing blob file is never rewritten.
C12_BlobWrittenAtMostOnce ==
    [][\A b \in BlobPaths :
           (exists(fs_data, temp_file(b)) /\ ~exists(fs_data', temp_file(b)))
               => ~exists(fs_data, b)]_vars

\* C13: of two tasks that both found the same blob path absent exactly one
\* creates the temp and stores the blob; the other gets AlreadyExists from the
\* create-exclusive open, which its import sees as IOErrorAddingToStorage.
C13_OneWinnerOneAlreadyExists ==
    /\ \A i, j \in DOMAIN tasks :
           (i # j /\ entry_path(tasks[i]) = entry_path(tasks[j]))
               => ~(tasks[i].created /\ tasks[j].created)
    /\ \A i \in DOMAIN tasks :
           tasks[i].io_error = "AlreadyExists"
               => tasks[i].result = Err("IOErrorAddingToStorage")

C15_CommittedFilesHaveBlobs ==
    (pc \in {"save_open", "save_write", "save_rename"}) =>
        \A b \in blobs(indices[name].dir) : exists(fs_data, b)

\* C15 witness: a tree with a file is being committed, its task having written
\* the blob during this import.
C15_Witness ==
    /\ pc = "save_open"
    /\ hist.admitted > 0
    /\ blobs(indices[name].dir) # {}
    /\ hist.pre_indices = <<>>

\* the payload whose identifier leads to blob path b
payload(b) == CHOOSE c \in Contents : \E e \in ImportEvent_File :
                  filename(StorageIdentifier(c, e.executable)) = b

\* C16: in every reachable state (so also where a crash or an I/O failure
\* stopped a write) a file at a blob path holds the complete payload of its
\* identifier, and a file at BASE/indices/<name>, for a name that is registered
\* or was committed, holds one complete tree.
C16_FinalPathsHoldCompleteContent ==
    /\ \A b \in BlobPaths : exists(fs_data, b) => fs_data[b] = Whole(payload(b))
    /\ \A n \in DOMAIN indices \cup DOMAIN hist.committed :
           exists(fs_indices, n) => fs_indices[n].state = "whole"

(***************************************************************************)
(* Claims about the tree (checked under SpecTree)                          *)
(***************************************************************************)
\* the normal components of a path
normal(path) == SelectSeq(path, LAMBDA c : c # ".")

\* the non-empty prefixes of a path
Prefixes(path) == {SubSeq(path, 1, k) : k \in 1 .. Len(path)}

\* no entry on the way to `path` is a file
NoFileOn(dir, path) == \A q \in Prefixes(path) : q \in DOMAIN dir => dir[q].kind # "File"

\* C17: a Directory(p) event whose way is not blocked by a file is accepted,
\* creating every missing intermediate directory; afterwards p and each of its
\* prefixes is a directory of the tree.
C17_DirectoryCreatesIntermediates ==
    (last_call.op = "Directory" /\ NoFileOn(last_call.before, normal(last_call.path))) =>
        /\ last_call.err = "none"
        /\ \A q \in Prefixes(normal(last_call.path)) :
               q \in DOMAIN root /\ root[q].kind = "Directory"

\* where a completion puts its file
target(c) == IF c.parent_path = {} THEN <<c.file_name>>
             ELSE Append(normal(the(c.parent_path)), c.file_name)

\* C18: when a completion (parent_path, name, id) is merged, missing components
\* of parent_path are created, so a file under a parent that no Directory event
\* declared is still placed at parent_path/name.
C18_MergeCreatesParents ==
    (/\ last_call.op = "merge"
     /\ NoFileOn(last_call.before, target(last_call.completion))
     /\ target(last_call.completion) \notin DOMAIN last_call.before) =>
        /\ last_call.err = "none"
        /\ target(last_call.completion) \in DOMAIN root
        /\ root[target(last_call.completion)] =
               DirectoryEntry_File(last_call.completion.identity)

\* C21: no call on the tree removes an entry or changes what a path is: every
\* entry of the tree before the call is the same entry after it; mkdir of an
\* existing directory succeeds and changes nothing, mkdir over a file fails with
\* DirectoryEntryExistsAsFile, insert_file over a directory fails with
\* FileEntryExistsAsDirectory.
C21_RolesNeverChange ==
    last_call.op # "none" =>
        LET before == last_call.before IN
        /\ \A q \in DOMAIN before : q \in DOMAIN root /\ root[q] = before[q]
        /\ last_call.op \in {"mkdir", "insert_file"} =>
               LET p == Append(last_call.here, last_call.file_name) IN
               /\ (last_call.op = "mkdir" /\ p \in DOMAIN before
                      /\ before[p].kind = "Directory") =>
                      last_call.err = "none" /\ root = before
               /\ (last_call.op = "mkdir" /\ p \in DOMAIN before
                      /\ before[p].kind = "File") =>
                      last_call.err = "DirectoryEntryExistsAsFile" /\ root = before
               /\ (last_call.op = "insert_file" /\ p \in DOMAIN before
                      /\ before[p].kind = "Directory") =>
                      last_call.err = "FileEntryExistsAsDirectory" /\ root = before

\* C21 witness: mkdir was called on the name of a directory that has entries.
C21_Witness ==
    /\ last_call.op = "mkdir"
    /\ LET p == Append(last_call.here, last_call.file_name) IN
       /\ p \in DOMAIN last_call.before
       /\ last_call.before[p].kind = "Directory"
       /\ \E q \in DOMAIN last_call.before : Len(q) > Len(p) /\ SubSeq(q, 1, Len(p)) = p

\* the components that are neither normal nor the current directory
Special == {"/", "..", "C:"}

\* the error a traversal reports on a special component
Unexpected(c) == CASE c = "/" -> "UnexpectedRootDir"
                   [] c = ".." -> "UnexpectedParent"
                   [] c = "C:" -> "UnexpectedPrefix"

\* the entry path made of the first k components of a path
Walked(path, k) == normal(SubSeq(path, 1, k))

\* the traversal cannot pass the k-th component of the path in the tree `dir`
Stops(dir, path, create, k) ==
    \/ path[k] \in Special
    \/ /\ path[k] # "."
       /\ IF Walked(path, k) \in DOMAIN dir THEN dir[Walked(path, k)].kind = "File"
          ELSE ~create

\* C22: traverse(path) and traverse_mut(path, create) follow the normal
\* components of path from the root and skip current-directory components.  At
\* the first component that cannot be passed they fail: with UnexpectedRootDir,
\* UnexpectedParent or UnexpectedPrefix on such a component, with EntryNotFound
\* on an absent one (unless it is created), with EntryNotDirectory on a file.
\* Otherwise they return the directory at the normal components.  traverse, and
\* traverse_mut without create, leave the tree unchanged; with create, only
\* empty directories on the path are added, and no entry is replaced.
C22_TraverseContract ==
    last_call.op \in {"traverse", "traverse_mut"} =>
        LET path == last_call.path
            before == last_call.before
            create == last_call.create
            stops == {k \in 1 .. Len(path) : Stops(before, path, create, k)}
            first == CHOOSE k \in stops : \A j \in stops : k <= j
        IN  /\ stops = {} =>
                   /\ last_call.err = "none"
                   /\ last_call.here = normal(path)
                   /\ last_call.here # <<>> =>
                          /\ last_call.here \in DOMAIN root
                          /\ root[last_call.here].kind = "Directory"
            /\ stops # {} =>
                   last_call.err =
                       IF path[first] \in Special THEN Unexpected(path[first])
                       ELSE IF Walked(path, first) \in DOMAIN before
                       THEN "EntryNotDirectory"
                       ELSE "EntryNotFound"
            /\ ~create => root = before
            /\ \A q \in DOMAIN before : q \in DOMAIN root /\ root[q] = before[q]
            /\ \A q \in DOMAIN root \ DOMAIN before :
                   /\ root[q] = DirectoryEntry_Directory
                   /\ \E k \in 1 .. Len(path) :
                          /\ q = Walked(path, k)
                          /\ \A j \in stops : k < j

\* C22 witness: traverse_mut with create made two directories on its way.
C22_Witness ==
    /\ last_call.op = "traverse_mut"
    /\ last_call.create
    /\ last_call.err = "none"
    /\ Cardinality(DOMAIN root) = Cardinality(DOMAIN last_call.before) + 2

(***************************************************************************)
(* Claims about the size of manifests (checked under SpecIndex)            *)
(***************************************************************************)
\* the files of BASE/indices that hold a manifest longer than the cap
Oversize(files) ==
    {f \in DOMAIN files : files[f].state = "whole"
                              /\ serialised_len(files[f].body) > MAX_METADATA_SIZE}

\* the files of BASE/indices that do not parse
Unparsable(files) == {f \in DOMAIN files : files[f].state \in {"empty", "partial"}}

\* C23: a manifest longer than MAX_METADATA_SIZE makes SharedStorage::new fail,
\* with IndexTooLarge when nothing else is wrong with the root; a tree that
\* serialises to more than MAX_METADATA_SIZE makes the commit fail with
\* IndexTooLarge before any file of BASE/indices is touched, and the name is not
\* registered when import has returned; a length of exactly MAX_METADATA_SIZE
\* is never refused with IndexTooLarge, neither at load nor at commit.
C23_IndexTooLargeAboveCapOnly ==
    /\ pc = "idle" => Oversize(fs_indices) = {}
    /\ (pc = "new_failed" /\ result.err = "IndexTooLarge") => Oversize(fs_indices) # {}
    /\ (pc = "new_failed" /\ Oversize(fs_indices) # {} /\ Unparsable(fs_indices) = {}
           /\ result.err # "Preparing") => result.err = "IndexTooLarge"
    /\ (pc \in {"save_open", "save_write", "save_rename"}) =>
           serialised_len(last_call.tree) <= MAX_METADATA_SIZE
    /\ (pc = "done" /\ last_call.op = "import") =>
           IF serialised_len(last_call.tree) > MAX_METADATA_SIZE
           THEN /\ result = Err("IndexTooLarge")
                /\ fs_indices = hist.pre_fs_indices
                /\ name \notin DOMAIN indices
           ELSE /\ result # Err("IndexTooLarge")
                /\ (faults = 0 /\ ~exists(hist.pre_fs_indices, set_extension_tmp(name))) =>
                       /\ result.kind = "Ok"
                       /\ fs_indices[name] = Whole(last_call.tree)

\* C23 witness: a tree of exactly MAX_METADATA_SIZE bytes was committed, and a
\* later SharedStorage::new has loaded it.
C23_Witness ==
    /\ pc = "idle"
    /\ \E n \in DOMAIN indices : serialised_len(indices[n].dir) = MAX_METADATA_SIZE
    /\ \E n \in DOMAIN hist.committed :
           serialised_len(hist.committed[n]) = MAX_METADATA_SIZE

(***************************************************************************)
(* Claims about FSImportStream (checked under SpecFSI)                     *)
(***************************************************************************)
\* C24: in the events of FSImportStream a File event is followed at once by
\* one event that is the FileData read from that file or an Error; no FileData
\* comes after anything but a File event; after an Error the stream ends.
C24_StreamObeysProtocol ==
    [][/\ event.kind = "File" => event'.kind \in {"FileData", "Error"}
       /\ event'.kind = "FileData" =>
              /\ event.kind = "File"
              /\ last_call.state.tag = "Data"
              /\ event = event_of(last_call.entries[last_call.state.n + 1])
       /\ event.kind = "Error" => event'.kind = "None"]_vars

\* C24 witness: the read of a file has failed, the stream has returned Error
\* and holds entries it has not reached (the last one is a directory).
C24_Witness ==
    /\ last_call.op = "next_event"
    /\ event.kind = "Error"
    /\ last_call.state = FSIMachine_Finished
    /\ Len(last_call.entries) >= 2
    /\ Last(last_call.entries).tag = "Dir"

\* BASE/indices/<name>.tmp: the name with ".tmp" appended
appended_tmp(n) == CASE n = "a" -> "a.tmp"
                     [] n = "a.tmp" -> "a.tmp.tmp"

\* C27: when BASE/indices/<name>.tmp exists as the commit of <name> starts, the
\* commit of a tree that is not too large fails with WritingIndex, no file of
\* BASE/indices is changed, and the name is not registered when import returns.
C27_StaleTempFailsCommit ==
    (/\ pc = "done"
     /\ last_call.op = "import"
     /\ serialised_len(last_call.tree) <= MAX_METADATA_SIZE
     /\ exists(hist.pre_fs_indices, appended_tmp(name))) =>
        /\ result = Err("WritingIndex")
        /\ fs_indices = hist.pre_fs_indices
        /\ name \notin DOMAIN indices

\* C28: a commit that has created its temp file and then fails with
\* WritingIndex removes the temp: when a single I/O call has failed (so that the
\* removal, if attempted, succeeded), no temp file is left by the failed commit.
C28_FailedCommitRemovesTemp ==
    (/\ pc = "done"
     /\ last_call.op = "import"
     /\ result = Err("WritingIndex")
     /\ faults = 1
     /\ ~exists(hist.pre_fs_indices, set_extension_tmp(name))) =>
        ~exists(fs_indices, set_extension_tmp(name))

(***************************************************************************)
(* More claims about imports (checked under Spec)                          *)
(***************************************************************************)
\* the tasks that hold an unreleased handle
Holding == {i \in DOMAIN tasks : tasks[i].pc # "done" /\ ~tasks[i].allocation.released}

\* the errors that no event stream is the cause of
NotFromStream == {"JoinError", "IOErrorAddingToStorage", "WritingIndex", "IndexTooLarge"}

\* C19: with a provider of one claim no two file tasks hold an unreleased
\* handle at the same instant, and, no I/O call failing, an import is never
\* failed by anything but its stream (files with identical content included).
C19_OneClaimSerialisesImports ==
    srp.claims = 1 =>
        /\ Cardinality(Holding) + Cardinality(alloc) <= 1
        /\ (faults = 0 /\ pc = "done" /\ result.kind = "Err")
               => result.err \notin NotFromStream

\* the tasks that hold the payload of their file
Payloads == {i \in DOMAIN tasks : tasks[i].contents = "held"}

\* the number of handles, of the tasks and of the import, that are not released
Unreleased == Cardinality(Holding) + Cardinality({a \in alloc : ~a.released})

\* the payload import_ holds in `event` when the producer has yielded a FileData
\* where an event of the top level was due (line 260, until line 279 throws)
Stray == IF pc = "poll" /\ event.kind = "FileData" THEN 1 ELSE 0

\* C25 as stated: at every instant the payloads held in memory by the import,
\* whether by its tasks or by the engine itself, are at most as many as the
\* unreleased handles, which are at most max_claims.
C25_PayloadsAtMostHandles ==
    /\ Cardinality(Payloads) + Stray <= Unreleased
    /\ Unreleased <= srp.claims

\* C25, amended: the payload that follows a File event is drawn only while the
\* import holds the granted, unreleased handle of that file, and a task holds
\* its payload only while its handle is unreleased; an Impossible claim ends in
\* ImpossibleFileClaim with no payload drawn and no second claim.  So the
\* payloads held by tasks are never more than the unreleased handles, and
\* these never more than max_claims; only a FileData that the producer yields
\* outside a File, FileData pair is held without a handle, until the import
\* aborts with UnexpectedFileData.
C25_PayloadOnlyUnderHandle ==
    /\ pc = "data" => (alloc # {} /\ ~the(alloc).released)
    /\ Payloads \subseteq Holding
    /\ Cardinality(Payloads) <= Unreleased
    /\ Unreleased <= srp.claims
    /\ (pc = "err_drain" /\ hist.error = "ImpossibleFileClaim") =>
           /\ hist.data_draw = "none"
           /\ hist.busy = "none"
           /\ alloc = {}

\* C25 witness: as many tasks as the provider has claims hold a payload, each
\* under its unreleased handle.
C25_Witness ==
    /\ Cardinality(Payloads) = 2
    /\ srp.claims = 2

\* the error import_ throws on an Error or a FileData of the top level
TopLevelError(e) == IF e.kind = "Error" THEN "ImportStreamError" ELSE "UnexpectedFileData"

\* the errors a reaped completion can fail the import with
CompletionErrors ==
    {"JoinError", "IOErrorAddingToStorage", "EntryNotFound", "EntryNotDirectory",
     "FileEntryExistsAsFile", "FileEntryExistsAsDirectory", "UnexpectedPrefix",
     "UnexpectedParent", "UnexpectedRootDir"}

\* C26 as stated: once an Error or a FileData of the top level has aborted the
\* import, the error is ImportStreamError or UnexpectedFileData.
C26_TopLevelErrorIsReported ==
    (pc = "err_drain" /\ event.kind \in {"Error", "FileData"}) =>
        hist.error = TopLevelError(event)

\* C26, amended: an Error or a FileData of the top level aborts the import: with
\* ImportStreamError or UnexpectedFileData when no finished task is left to be
\* reaped, and otherwise possibly with the error of a completion that is reaped
\* first.  No claim is requested for the event, and from the abort to the
\* return of the error no index is registered and no manifest written.
C26_TopLevelEventAborts ==
    [][/\ (pc = "poll" /\ event.kind \in {"Error", "FileData"}) =>
              /\ pc' \in {"poll", "err_drain"}
              /\ alloc' = {}
              /\ srp'.claims_in_use <= srp.claims_in_use
              /\ (pc' = "err_drain" /\ Ready = {}) => hist'.error = TopLevelError(event)
              /\ (pc' = "err_drain" /\ Ready # {}) => hist'.error \in CompletionErrors
       /\ (pc = "err_drain" /\ event.kind \in {"Error", "FileData"}) =>
              /\ pc' \in {"err_drain", "done"}
              /\ indices' = indices
              /\ fs_indices' = fs_indices
              /\ pc' = "done" => result' = Err(hist.error)]_vars

\* C26 witness: a FileData of the top level has aborted the import with
\* UnexpectedFileData while a task of an earlier file was in flight.
C26_Witness ==
    /\ pc = "err_drain"
    /\ event.kind = "FileData"
    /\ hist.error = "UnexpectedFileData"
    /\ inserters # {}

\* C29: an import that has been called returns (or unwinds), whatever the
\* stream and the parameters of the provider, the tasks going on to their end.
C29_ImportReturns ==
    (pc \notin {"idle", "done", "panicked", "new_failed"})
        ~> (pc \in {"done", "panicked"})

\* C30: when import fails for a name that was registered before the call, the
\* name is still registered afterwards, with the tree it had, and the manifest
\* on disk still holds that tree.
C30_FailedImportKeepsEarlierIndex ==
    (pc = "done" /\ result.kind = "Err" /\ name \in DOMAIN hist.pre_indices) =>
        /\ name \in DOMAIN indices
        /\ indices[name].dir = hist.pre_indices[name].dir
        /\ exists(fs_indices, name)
        /\ fs_indices[name] = Whole(hist.pre_indices[name].dir)

\* C20: insert_file(name, id) adds File(id) when name is absent, changes
\* nothing when name is already File(id), fails with FileEntryExistsAsFile when
\* name is a file of another identifier and with FileEntryExistsAsDirectory
\* when name is a directory; a failing call leaves the tree unchanged.
C20_InsertFileCases ==
    last_call.op = "insert_file" =>
        LET p == Append(last_call.here, last_call.file_name)
            before == last_call.before
            entry == DirectoryEntry_File(last_call.identity)
        IN  /\ p \notin DOMAIN before =>
                   /\ last_call.err = "none"
                   /\ DOMAIN root = DOMAIN before \cup {p}
                   /\ root[p] = entry
                   /\ \A q \in DOMAIN before : root[q] = before[q]
            /\ (p \in DOMAIN before /\ before[p] = entry) =>
                   last_call.err = "none" /\ root = before
            /\ (p \in DOMAIN before /\ before[p].kind = "File" /\ before[p] # entry) =>
                   last_call.err = "FileEntryExistsAsFile" /\ root = before
            /\ (p \in DOMAIN before /\ before[p].kind = "Directory") =>
                   last_call.err = "FileEntryExistsAsDirectory" /\ root = before

\* C20 witness: insert_file was called on a name that is a file of another
\* identifier, inside a sub-directory.
C20_Witness ==
    /\ last_call.op = "insert_file"
    /\ last_call.err = "FileEntryExistsAsFile"
    /\ last_call.here # <<>>

\* C31: for a fixed event stream and a fixed provider, no I/O call failing,
\* the outcome of import (success, or failure and its error kind) is the same
\* under every scheduling of the spawned tasks: the second import of a stream
\* ends as the first one did.
C31_SameOutcomeUnderEverySchedule ==
    (last_call.run = 2 /\ pc \in {"done", "panicked"}) => result = last_call.first

\* C32: the soft-cap test of claim never wraps around: a claim made while
\* another claim is outstanding is granted only if the unbounded sum
\* space_in_use + size is at most space, and space_in_use after the grant is
\* that sum.
C32_SoftCapSumNeverWraps ==
    (last_call.op = "claim" /\ last_call.result = "Ok"
         /\ last_call.before.claims_in_use > 0) =>
        /\ last_call.before.space_in_use + last_call.size <= last_call.before.space
        /\ srp.space_in_use = last_call.before.space_in_use + last_call.size

(***************************************************************************)
(* Claims about importing an FSImportStream (checked under SpecFSImport)   *)
(***************************************************************************)
\* the path an event of the stream names
named(e) == IF e.kind = "Directory" THEN e.path
            ELSE IF e.parent_path = {} THEN <<e.file_name>>
            ELSE Append(the(e.parent_path), e.file_name)

\* the events of the stream that name an entry
Naming == {i \in DOMAIN last_call.events :
              last_call.events[i].kind \in {"Directory", "File"}}

\* C33: in the events of FSImportStream the Directory event of a directory
\* comes before every File and Directory event of what lies in it, a top-level
\* file carries no parent path and a file in a directory carries the path of
\* that directory; importing the stream never fails with EntryNotFound.
C33_DirectoryBeforeItsContents ==
    /\ \A i \in Naming :
           LET e == last_call.events[i] IN
           /\ Len(named(e)) > 1 =>
                  \E j \in 1 .. (i - 1) :
                      last_call.events[j] = [kind |-> "Directory", path |-> Front(named(e))]
           /\ e.kind = "File" =>
                  e.parent_path = IF Len(named(e)) = 1 THEN {} ELSE {Front(named(e))}
    /\ hist.error # "EntryNotFound"
    /\ result # Err("EntryNotFound")

\* C33 witness: the import of a scanned tree with a file in a directory has
\* returned Ok and registered the file below its directory.
C33_Witness ==
    /\ last_call.op = "stream"
    /\ pc = "done"
    /\ result = [kind |-> "Ok"]
    /\ \E i \in Naming : Len(named(last_call.events[i])) > 1
                            /\ last_call.events[i].kind = "File"
    /\ <<"d", "f">> \in DOMAIN indices["a"].dir

====
